---- MODULE Spec2Model ----
(***************************************************************************)
(* A model of dorametrix's Shortcut webhook parser (ShortcutParser), of    *)
(* the timestamp helpers of infrastructure/frameworks/time.ts and of the   *)
(* local repository (LocalRepository).                                     *)
(*                                                                         *)
(* JavaScript values are represented as follows.                           *)
(*   - an optional value (a key that may be missing, `undefined`) is a set *)
(*     with at most one element: None is "missing", Some(x) is "x";        *)
(*   - a string the code takes apart (a YYYYMMDD date, an ISO date-time    *)
(*     handed to Date, an environment value handed to parseInt) is a       *)
(*     sequence of one-character strings; a string the code only builds,   *)
(*     compares or passes on is a TLA+ string;                             *)
(*   - an ISO date-time string of the provider is represented by the epoch *)
(*     second it denotes.                                                  *)
(***************************************************************************)
EXTENDS Integers, Sequences, FiniteSets, TLC

VARIABLES
    env,        \* process.env: SHORTCUT_TOKEN and SHORTCUT_INCIDENT_LABEL_ID
    parser,     \* the ShortcutParser instance of this invocation, if constructed
    pc,         \* position of the invocation: "start", "ready", "done"
    httpCalls,  \* number of requests issued to the provider API in this invocation
    result,     \* outcome of the last constructor / getEventType / getPayload call
    timeIn,     \* arguments of getTimestampForInputDate
    timeOut,    \* its outcome
    repo,       \* the LocalRepository instance, if constructed: its collections
    repoOut     \* outcome of the last call on the repository

vars == <<env, parser, pc, httpCalls, result, timeIn, timeOut, repo, repoOut>>

parserVars == <<env, parser, pc, httpCalls, result>>
timeVars == <<timeIn, timeOut>>
repoVars == <<repo, repoOut>>

----------------------------------------------------------------------------
(* Optional values *)

None == {}
Some(x) == {x}
IsSome(o) == o # {}
Get(o) == CHOOSE x \in o : TRUE

----------------------------------------------------------------------------
(* Bounds *)

\* Longest `actions` list of a webhook body.
MaxActions == 2

\* Largest whole-hour timezone offset, in either direction.
MaxOffsetHours == 14

\* Number of calendar years, from 2022 on, the input dates are drawn from.
NumYears == 2

\* Longest collection of changes, deployments or incidents of the repository.
MaxItems == 2

----------------------------------------------------------------------------
(* Decimal strings *)

Digits == <<"0", "1", "2", "3", "4", "5", "6", "7", "8", "9">>

IsDigit(c) == \E i \in 1..10 : Digits[i] = c

DigitValue(c) == (CHOOSE i \in 1..10 : Digits[i] = c) - 1

RECURSIVE NatToString(_)
\* Number.prototype.toString() of a non-negative integer.
NatToString(n) ==
    IF n < 10 THEN Digits[n + 1]
    ELSE NatToString(n \div 10) \o Digits[(n % 10) + 1]

\* Number.prototype.toString() / template-literal conversion of an integer.
NumberToString(n) == IF n < 0 THEN "-" \o NatToString(-n) ELSE NatToString(n)

\* The string JavaScript prints for NaN.
NaNString == "NaN"

----------------------------------------------------------------------------
(* Configuration: process.env and the constructor *)

\* Values of SHORTCUT_TOKEN: unset, empty, the text "undefined", a real token.
TokenValues == {None, Some(""), Some("undefined"), Some("tok")}

\* Values of SHORTCUT_INCIDENT_LABEL_ID: unset, or a text.
LabelIdValues ==
    {None, Some(<<>>), Some(<<"0">>), Some(<<"a">>), Some(<<"0", "0">>),
     Some(<<"-", "0">>), Some(<<"1">>), Some(<<"2", "a">>)}

Environments == [SHORTCUT_TOKEN : TokenValues, SHORTCUT_INCIDENT_LABEL_ID : LabelIdValues]

RECURSIVE SkipWhiteSpace(_)
\* parseInt ignores leading white space.
SkipWhiteSpace(s) ==
    IF s # <<>> /\ Head(s) = " " THEN SkipWhiteSpace(Tail(s)) ELSE s

RECURSIVE LeadingDigits(_)
\* The longest prefix of s made of decimal digits.
LeadingDigits(s) ==
    IF s # <<>> /\ IsDigit(Head(s)) THEN <<Head(s)>> \o LeadingDigits(Tail(s)) ELSE <<>>

RECURSIVE DigitsToNat(_, _)
DigitsToNat(s, acc) ==
    IF s = <<>> THEN acc ELSE DigitsToNat(Tail(s), 10 * acc + DigitValue(Head(s)))

\* parseInt(value) of an optional text: None is NaN, Some(n) the integer read
\* from the text's start (sign, then as many digits as there are).
parseInt(value) ==
    IF value = None THEN None
    ELSE LET trimmed == SkipWhiteSpace(Get(value))
             negative == trimmed # <<>> /\ Head(trimmed) = "-"
             unsigned == IF trimmed # <<>> /\ Head(trimmed) \in {"-", "+"}
                         THEN Tail(trimmed) ELSE trimmed
             digits == LeadingDigits(unsigned)
         IN IF digits = <<>> THEN None
            ELSE Some(IF negative THEN -DigitsToNat(digits, 0) ELSE DigitsToNat(digits, 0))

\* The constructor's local helper: the parsed integer, or the default for NaN.
parseIntValue(value, defaultValue) ==
    LET parsed == parseInt(value)
    IN IF parsed = None THEN defaultValue ELSE Get(parsed)

\* The shape of `result`; fields a call does not set keep these values.
NoResult ==
    [op |-> "none", threw |-> "", detail |-> "", eventType |-> "", event |-> "",
     input |-> None, story |-> None, now |-> 0, dto |-> None]

Threw(op, error, detail) ==
    [NoResult EXCEPT !.op = op, !.threw = error, !.detail = detail]

\* process.env.SHORTCUT_TOKEN ?? ''
TokenOf(e) == IF IsSome(e.SHORTCUT_TOKEN) THEN Get(e.SHORTCUT_TOKEN) ELSE ""

\* Mutant: the text "undefined" is taken for a token.
TokenMissing_EmptyOnly(shortcutToken) == shortcutToken = ""

TokenMissing(shortcutToken) == shortcutToken = "" \/ shortcutToken = "undefined"

LabelIdOf(e) == parseIntValue(e.SHORTCUT_INCIDENT_LABEL_ID, 0)

LabelIdMissing(shortcutIncidentLabelId) == shortcutIncidentLabelId = 0

\* new ShortcutParser(): the instance, or the configuration error thrown.
Construct ==
    /\ pc = "start"
    /\ LET shortcutToken == TokenOf(env)
           shortcutIncidentLabelId == LabelIdOf(env)
       IN IF TokenMissing(shortcutToken)
          THEN /\ parser' = None
               /\ result' = Threw("constructor", "ShortcutConfigurationError", "SHORTCUT_TOKEN")
               /\ pc' = "done"
          ELSE IF LabelIdMissing(shortcutIncidentLabelId)
          THEN /\ parser' = None
               /\ result' = Threw("constructor", "ShortcutConfigurationError",
                                  "SHORTCUT_INCIDENT_LABEL_ID")
               /\ pc' = "done"
          ELSE /\ parser' = Some([shortcutToken |-> shortcutToken,
                                  shortcutIncidentLabelId |-> shortcutIncidentLabelId])
               /\ result' = [NoResult EXCEPT !.op = "constructor"]
               /\ pc' = "ready"
    /\ UNCHANGED <<env, httpCalls, timeVars, repoVars>>

----------------------------------------------------------------------------
(* Webhook bodies and story records *)

\* A label list of a webhook action, when the key is present.
LabelLists == {<<1>>}

ActionKinds == {"create", "update", "delete"}

\* One element of body.actions: its kind, its direct label_ids and the
\* changes.label_ids.adds / changes.label_ids.removes deltas, each optional.
Actions ==
    [action : ActionKinds,
     label_ids : {None} \cup {Some(l) : l \in LabelLists},
     adds : {None} \cup {Some(l) : l \in LabelLists},
     removes : {None} \cup {Some(l) : l \in LabelLists}]

ActionLists == UNION {[1..n -> Actions] : n \in 0..MaxActions}

\* A body without any key: Object.keys(body).length == 0.
EmptyBody == [primary_id |-> None, actions |-> None, changed_at |-> None]

\* The webhook bodies: the empty object, and bodies with a changed_at, with
\* or without a primary_id and an actions list.
WebhookBodies ==
    {EmptyBody} \cup
    [primary_id : {None, Some(7)},
     actions : {None} \cup {Some(l) : l \in ActionLists},
     changed_at : {Some("2023-01-03T00:00:00Z")}]

\* payloadInput.body / eventTypeInput.body: missing, or a body.
BodyInputs == {None} \cup {Some(b) : b \in WebhookBodies}

\* Object.keys(body).length
KeyCount(b) ==
    Cardinality({k \in {"primary_id", "actions", "changed_at"} : IsSome(b[k])})

\* The story records the provider API answers with; dates are epoch seconds.
Stories ==
    [id : {7}, name : {"story"}, created_at : {100000},
     completed : BOOLEAN, archived : BOOLEAN,
     completed_at : {None, Some(150000)},
     completed_at_override : {None, Some(160000)}]

\* What fetch(...).then(response.json()) leaves in storyData: the call
\* rejects ("failed"), or answers with an empty object or a story.
FetchOutcomes ==
    {[failed |-> TRUE, json |-> None], [failed |-> FALSE, json |-> None]}
    \cup {[failed |-> FALSE, json |-> Some(st)] : st \in Stories}

\* Date.now(), in milliseconds.
DateNowValues == {172800123}

----------------------------------------------------------------------------
(* Label matcher *)

\* list.filter((label) => label == incidentLabelId).length of an optional list
\* (a missing list gives undefined, and undefined > 0 is false).
FilterLength(list, incidentLabelId) ==
    IF list = None THEN 0
    ELSE Cardinality({i \in DOMAIN Get(list) : Get(list)[i] = incidentLabelId})

\* action.changes.label_ids[check]
ChangesLabelIds(action, check) ==
    IF check = "adds" THEN action.adds
    ELSE IF check = "removes" THEN action.removes
    ELSE None

RECURSIVE hasLabelIdFrom(_, _, _, _)
\* The loop of hasLabelId from position index on.
hasLabelIdFrom(check, incidentLabelId, webhookActions, index) ==
    IF index > Len(webhookActions) THEN FALSE
    ELSE LET action == webhookActions[index]
         IN IF FilterLength(action.label_ids, incidentLabelId) > 0 THEN TRUE
            ELSE IF FilterLength(ChangesLabelIds(action, check), incidentLabelId) > 0 THEN TRUE
            ELSE hasLabelIdFrom(check, incidentLabelId, webhookActions, index + 1)

\* Mutant: only the first action is looked at.
hasLabelId_FirstActionOnly(check, incidentLabelId, webhookActions) ==
    /\ webhookActions # <<>>
    /\ \/ FilterLength(webhookActions[1].label_ids, incidentLabelId) > 0
       \/ FilterLength(ChangesLabelIds(webhookActions[1], check), incidentLabelId) > 0

\* hasLabelId(check, incidentLabelId, webhookActions) on an actions list.
hasLabelId(check, incidentLabelId, webhookActions) ==
    hasLabelIdFrom(check, incidentLabelId, webhookActions, 1)

\* Mutant: the removes delta is searched instead of the adds delta.
hasIncidentLabel_Removes(p, webhookActions) ==
    hasLabelId("removes", p.shortcutIncidentLabelId, webhookActions)

\* hasIncidentLabel(webhookActions)
hasIncidentLabel(p, webhookActions) ==
    hasLabelId("adds", p.shortcutIncidentLabelId, webhookActions)

\* Object.keys(undefined), and undefined.filter(...), throw a TypeError.
ActionsUndefined(webhookbody) == webhookbody.actions = None

\* payloadInput.body || {}
BodyOrEmpty(input) == IF input = None THEN EmptyBody ELSE Get(input)

\* !webhookbody || Object.keys(webhookbody).length == 0
BodyIsEmpty(webhookbody) == KeyCount(webhookbody) = 0

----------------------------------------------------------------------------
(* getEventType *)

getEventTypeResult(p, input) ==
    LET webhookbody == BodyOrEmpty(input)
        called == [NoResult EXCEPT !.op = "getEventType", !.input = input]
    IN IF BodyIsEmpty(webhookbody)
       THEN [called EXCEPT !.threw = "MissingShortcutFieldsError"]
       ELSE IF ActionsUndefined(webhookbody)
       THEN [called EXCEPT !.threw = "TypeError"]
       ELSE IF hasIncidentLabel(p, Get(webhookbody.actions))
       THEN [called EXCEPT !.eventType = "incident"]
       ELSE [called EXCEPT !.eventType = "change"]

GetEventType ==
    /\ pc = "ready"
    /\ \E input \in BodyInputs :
          result' = getEventTypeResult(Get(parser), input)
    /\ pc' = "done"
    /\ UNCHANGED <<env, parser, httpCalls, timeVars, repoVars>>

----------------------------------------------------------------------------
(* getPayload *)

\* convertDateToUnixTimestamp(date) of chrono-utils: the epoch seconds of the
\* date as a decimal string; an undefined date is an invalid Date, whose time
\* is NaN.
convertDateToUnixTimestamp(date) ==
    IF date = None THEN NaNString ELSE NumberToString(Get(date))

BoolToJson(b) == IF b THEN "true" ELSE "false"

OptToJson(o) == IF o = None THEN "null" ELSE NumberToString(Get(o))

\* JSON.stringify(body) of a story record.
JsonStringify(body) ==
    "{id:" \o NumberToString(body.id) \o ",name:" \o body.name
    \o ",created_at:" \o NumberToString(body.created_at)
    \o ",completed:" \o BoolToJson(body.completed)
    \o ",archived:" \o BoolToJson(body.archived)
    \o ",completed_at:" \o OptToJson(body.completed_at)
    \o ",completed_at_override:" \o OptToJson(body.completed_at_override) \o "}"

\* body.completed_at_override?.toString() || body.completed_at?.toString()
CompletionDate(body) ==
    IF IsSome(body.completed_at_override) THEN body.completed_at_override
    ELSE body.completed_at

handleTimeResolved(body, now) ==
    IF body.completed \/ body.archived
    THEN convertDateToUnixTimestamp(CompletionDate(body))
    ELSE NumberToString(now)

\* Mutant: the DTO of an opened or labeled event carries timeResolved too.
handleOpenedLabeled_WithTimeResolved(webhook, body) ==
    [eventTime |-> webhook.changed_at,
     timeCreated |-> Some(convertDateToUnixTimestamp(Some(body.created_at))),
     timeResolved |-> Some(convertDateToUnixTimestamp(CompletionDate(body))),
     id |-> Some(NumberToString(body.id)),
     title |-> Some(body.name),
     message |-> Some(JsonStringify(body))]

handleOpenedLabeled(webhook, body) ==
    [eventTime |-> webhook.changed_at,
     timeCreated |-> Some(convertDateToUnixTimestamp(Some(body.created_at))),
     timeResolved |-> None,
     id |-> Some(NumberToString(body.id)),
     title |-> Some(body.name),
     message |-> Some(JsonStringify(body))]

handleClosedUnlabeled(webhook, body, now) ==
    [eventTime |-> webhook.changed_at,
     timeCreated |-> Some(convertDateToUnixTimestamp(Some(body.created_at))),
     timeResolved |-> Some(handleTimeResolved(body, now)),
     id |-> Some(NumberToString(body.id)),
     title |-> Some(body.name),
     message |-> Some(JsonStringify(body))]

\* The DTO getPayload returns for an event it does not know.
UnknownDto ==
    [eventTime |-> Some("UNKNOWN"), timeCreated |-> Some("UNKNOWN"),
     timeResolved |-> Some("UNKNOWN"), id |-> Some("UNKNOWN"),
     title |-> Some("UNKNOWN"), message |-> Some("UNKNOWN")]

\* actions.filter((action) => action.action == kind).length > 0
HasActionOfKind(webhookActions, kind) ==
    Cardinality({i \in DOMAIN webhookActions : webhookActions[i].action = kind}) > 0

\* Mutant: an archived story is not closed.
ClassifyEvent_ArchivedIgnored(p, webhookbody, body) ==
    IF body.completed = TRUE THEN "closed"
    ELSE IF ActionsUndefined(webhookbody) THEN "TypeError"
    ELSE LET webhookActions == Get(webhookbody.actions)
         IN IF HasActionOfKind(webhookActions, "create")
            THEN IF hasIncidentLabel(p, webhookActions) THEN "labeled" ELSE "opened"
            ELSE IF HasActionOfKind(webhookActions, "update")
            THEN IF hasLabelId("adds", p.shortcutIncidentLabelId, webhookActions)
                 THEN "labeled"
                 ELSE IF hasLabelId("removes", p.shortcutIncidentLabelId, webhookActions)
                 THEN "unlabeled"
                 ELSE "opened"
            ELSE "unknown"

\* The event classifier of getPayload: the event, or "TypeError" when the
\* code calls filter on a missing actions list.
ClassifyEvent(p, webhookbody, body) ==
    IF body.completed = TRUE THEN "closed"
    ELSE IF body.archived = TRUE THEN "closed"
    ELSE IF ActionsUndefined(webhookbody) THEN "TypeError"
    ELSE LET webhookActions == Get(webhookbody.actions)
         IN IF HasActionOfKind(webhookActions, "create")
            THEN IF hasIncidentLabel(p, webhookActions) THEN "labeled" ELSE "opened"
            ELSE IF HasActionOfKind(webhookActions, "update")
            THEN IF hasLabelId("adds", p.shortcutIncidentLabelId, webhookActions)
                 THEN "labeled"
                 ELSE IF hasLabelId("removes", p.shortcutIncidentLabelId, webhookActions)
                 THEN "unlabeled"
                 ELSE "opened"
            ELSE "unknown"

\* The switch of getPayload on the event.
DtoForEvent(event, webhookbody, body, now) ==
    IF event \in {"opened", "labeled"} THEN handleOpenedLabeled(webhookbody, body)
    ELSE IF event \in {"closed", "unlabeled"} THEN handleClosedUnlabeled(webhookbody, body, now)
    ELSE UnknownDto

\* Mutant: the ID is not checked before the request.
IdMissing_Never(webhookbody) == FALSE

\* !id in getStoryData
IdMissing(webhookbody) == webhookbody.primary_id = None

\* getPayload(payloadInput) with the outcome of the fetch and the value
\* Date.now() has: the new `result` and whether the request was issued.
getPayloadResult(p, input, fetched, now) ==
    LET webhookbody == BodyOrEmpty(input)
        called == [NoResult EXCEPT !.op = "getPayload", !.input = input]
    IN IF BodyIsEmpty(webhookbody)
       THEN [requested |-> FALSE,
             result |-> [called EXCEPT !.threw = "MissingShortcutFieldsError"]]
       ELSE IF IdMissing(webhookbody)
       THEN [requested |-> FALSE,
             result |-> [called EXCEPT !.threw = "MissingIdError",
                                       !.detail = "Missing ID in getStoryData()!"]]
       ELSE IF fetched.failed
       THEN [requested |-> TRUE, result |-> [called EXCEPT !.threw = "FetchError"]]
       ELSE IF fetched.json = None
       THEN [requested |-> TRUE,
             result |-> [called EXCEPT !.threw = "MissingShortcutFieldsError"]]
       ELSE LET body == Get(fetched.json)
                event == ClassifyEvent(p, webhookbody, body)
                answered == [called EXCEPT !.story = fetched.json, !.now = now]
            IN IF event = "TypeError"
               THEN [requested |-> TRUE, result |-> [answered EXCEPT !.threw = "TypeError"]]
               ELSE [requested |-> TRUE,
                     result |-> [answered EXCEPT
                                    !.event = event,
                                    !.dto = Some(DtoForEvent(event, webhookbody, body, now))]]

GetPayload ==
    /\ pc = "ready"
    /\ \E input \in BodyInputs, fetched \in FetchOutcomes, now \in DateNowValues :
          LET out == getPayloadResult(Get(parser), input, fetched, now)
          IN /\ result' = out.result
             /\ httpCalls' = IF out.requested THEN httpCalls + 1 ELSE httpCalls
    /\ pc' = "done"
    /\ UNCHANGED <<env, parser, timeVars, repoVars>>

----------------------------------------------------------------------------
(* time.ts: getTimestampForInputDate *)

RECURSIVE NatToChars(_)
\* The characters of Number.prototype.toString() of a non-negative integer.
NatToChars(n) ==
    IF n < 10 THEN <<Digits[n + 1]>>
    ELSE NatToChars(n \div 10) \o <<Digits[(n % 10) + 1]>>

\* offsetInHours.toString(), as characters.
NumberToChars(n) == IF n < 0 THEN <<"-">> \o NatToChars(-n) ELSE NatToChars(n)

\* s.includes(c)
Includes(s, c) == \E i \in DOMAIN s : s[i] = c

\* s.replace(c, ''): the first occurrence of the character c removed.
RemoveFirst(s, c) ==
    IF ~Includes(s, c) THEN s
    ELSE LET i == CHOOSE k \in DOMAIN s : s[k] = c /\ \A j \in 1..(k - 1) : s[j] # c
         IN SubSeq(s, 1, i - 1) \o SubSeq(s, i + 1, Len(s))

\* !input || input.length !== 8
InvalidInputDate(input) == input = None \/ Get(input) = <<>> \/ Len(Get(input)) # 8

\* convertToIsoDate(input) of an 8-character input: `${year}-${month}-${day}`.
convertToIsoDate(input) ==
    LET year == SubSeq(input, 1, 4)
        month == SubSeq(input, 5, 6)
        day == SubSeq(input, 7, 8)
    IN year \o <<"-">> \o month \o <<"-">> \o day

\* Mutant: the sign of offsetInHours is kept.
OffsetMarker_NotFlipped(offsetInHours) ==
    IF Includes(NumberToChars(offsetInHours), "-") THEN "-" ELSE "+"

\* The sign written before the offset: flipped with respect to offsetInHours.
OffsetMarker(offsetInHours) ==
    IF Includes(NumberToChars(offsetInHours), "-") THEN "+" ELSE "-"

TimeOfDay(lastPossibleTime) ==
    IF lastPossibleTime
    THEN <<"T", "2", "3", ":", "5", "9", ":", "5", "9", ".", "9", "9", "9">>
    ELSE <<"T", "0", "0", ":", "0", "0", ":", "0", "0", ".", "0", "0", "0">>

createTimezoneConvertedDateString(formattedDate, offsetInHours, lastPossibleTime) ==
    LET offsetMarker == OffsetMarker(offsetInHours)
        numericOffset == RemoveFirst(NumberToChars(offsetInHours), "-")
        leadingZero == IF Len(numericOffset) = 1 THEN <<"0">> ELSE <<>>
        time == TimeOfDay(lastPossibleTime)
    IN formattedDate \o time \o <<offsetMarker>> \o leadingZero \o numericOffset
       \o <<":", "0", "0">>

\* The number two decimal digits, or more, spell.
NumberAt(s, from, to) == DigitsToNat(SubSeq(s, from, to), 0)

AllDigits(s, positions) == \A i \in positions : IsDigit(s[i])

IsLeapYear(y) == (y % 4 = 0 /\ y % 100 # 0) \/ y % 400 = 0

DaysInMonth(y, m) ==
    IF m = 2 THEN (IF IsLeapYear(y) THEN 29 ELSE 28)
    ELSE IF m \in {4, 6, 9, 11} THEN 30 ELSE 31

\* Days from 1970-01-01 to the civil date y-m-d (proleptic Gregorian).
DaysFromCivil(y, m, d) ==
    LET yy == IF m <= 2 THEN y - 1 ELSE y
        era == yy \div 400
        yoe == yy - era * 400
        mp == (m + 9) % 12
        doy == (153 * mp + 2) \div 5 + d - 1
        doe == yoe * 365 + yoe \div 4 - yoe \div 100 + doy
    IN era * 146097 + doe - 719468

\* new Date(text) of a text YYYY-MM-DDTHH:mm:ss.sss+HH:mm (or -HH:mm): the
\* time value as whole seconds and milliseconds, or None for an Invalid Date.
NewDate(text) ==
    IF Len(text) # 29 THEN None
    ELSE IF ~AllDigits(text, {1, 2, 3, 4, 6, 7, 9, 10, 12, 13, 15, 16, 18, 19,
                               21, 22, 23, 25, 26, 28, 29}) THEN None
    ELSE IF <<text[5], text[8], text[11], text[14], text[17], text[20], text[27]>>
            # <<"-", "-", "T", ":", ":", ".", ":">> THEN None
    ELSE IF text[24] \notin {"+", "-"} THEN None
    ELSE LET y == NumberAt(text, 1, 4)
             m == NumberAt(text, 6, 7)
             d == NumberAt(text, 9, 10)
             hh == NumberAt(text, 12, 13)
             mm == NumberAt(text, 15, 16)
             ss == NumberAt(text, 18, 19)
             ms == NumberAt(text, 21, 23)
             oh == NumberAt(text, 25, 26)
             om == NumberAt(text, 28, 29)
             offset == (IF text[24] = "+" THEN 1 ELSE -1) * (oh * 3600 + om * 60)
         IN IF m \notin 1..12 \/ d < 1 \/ d > DaysInMonth(y, m) THEN None
            ELSE IF hh > 23 \/ mm > 59 \/ ss > 59 \/ oh > 23 \/ om > 59 THEN None
            ELSE Some([seconds |-> DaysFromCivil(y, m, d) * 86400
                                   + hh * 3600 + mm * 60 + ss - offset,
                       millis |-> ms])

\* Math.floor(date.getTime() / 1000); None is NaN.
getTimestampForISODate(formattedDate, offsetInHours, lastPossibleTime) ==
    LET date == NewDate(createTimezoneConvertedDateString(formattedDate, offsetInHours,
                                                          lastPossibleTime))
    IN IF date = None THEN None
       ELSE Some(Get(date).seconds + (Get(date).millis \div 1000))

NoTimeOut == [called |-> FALSE, threw |-> "", dateString |-> <<>>, value |-> ""]

\* getTimestampForInputDate(date, offsetInHours, lastPossibleTime)
getTimestampForInputDate(date, offsetInHours, lastPossibleTime) ==
    IF InvalidInputDate(date)
    THEN [NoTimeOut EXCEPT !.called = TRUE, !.threw = "InvalidIsoDateConversionError"]
    ELSE LET formatted == convertToIsoDate(Get(date))
             timestamp == getTimestampForISODate(formatted, offsetInHours, lastPossibleTime)
         IN [called |-> TRUE, threw |-> "",
             dateString |-> createTimezoneConvertedDateString(formatted, offsetInHours,
                                                              lastPossibleTime),
             value |-> IF timestamp = None THEN NaNString
                       ELSE NumberToString(Get(timestamp))]

Pad2(n) == IF n < 10 THEN <<"0">> \o NatToChars(n) ELSE NatToChars(n)

\* The text YYYYMMDD of a date.
DateChars(y, m, d) == NatToChars(y) \o Pad2(m) \o Pad2(d)

InputYears == 2022..(2022 + NumYears - 1)

\* Calendar dates: first and last days of January, February and December.
CalendarDates ==
    {ymd \in InputYears \X {1, 2, 12} \X {1, 28, 29, 31} :
        ymd[3] <= DaysInMonth(ymd[1], ymd[2])}

\* The date arguments: missing, empty, too short, too long, 8 characters that
\* are no date, and the calendar dates.
DateInputs ==
    {None, Some(<<>>), Some(<<"2", "0", "2", "3", "0", "1", "1">>),
     Some(<<"2", "0", "2", "3", "-", "0", "1", "-", "0", "1">>),
     Some(<<"2", "0", "2", "3", "-", "1", "-", "1">>)}
    \cup {Some(DateChars(ymd[1], ymd[2], ymd[3])) : ymd \in CalendarDates}

TimeInputs ==
    [date : DateInputs, offsetInHours : (-MaxOffsetHours)..MaxOffsetHours,
     lastPossibleTime : BOOLEAN]

GetTimestampForInputDate ==
    /\ ~timeOut.called
    /\ timeOut' = getTimestampForInputDate(timeIn.date, timeIn.offsetInHours,
                                           timeIn.lastPossibleTime)
    /\ UNCHANGED <<timeIn, parserVars, repoVars>>

----------------------------------------------------------------------------
(* LocalRepository *)

LowerCase == <<"a", "b", "c", "d", "e", "f", "g", "h", "i", "j", "k", "l", "m",
               "n", "o", "p", "q", "r", "s", "t", "u", "v", "w", "x", "y", "z">>

UpperCase == <<"A", "B", "C", "D", "E", "F", "G", "H", "I", "J", "K", "L", "M",
               "N", "O", "P", "Q", "R", "S", "T", "U", "V", "W", "X", "Y", "Z">>

UpperChar(c) ==
    IF \E i \in 1..26 : LowerCase[i] = c
    THEN UpperCase[CHOOSE i \in 1..26 : LowerCase[i] = c]
    ELSE c

\* String.prototype.toUpperCase()
toUpperCase(s) == [i \in DOMAIN s |-> UpperChar(s[i])]

RECURSIVE SplitFrom(_, _, _)
\* The pieces of s between the separators, the piece begun being `piece`.
SplitFrom(s, separator, piece) ==
    IF s = <<>> THEN <<piece>>
    ELSE IF Head(s) = separator
         THEN <<piece>> \o SplitFrom(Tail(s), separator, <<>>)
         ELSE SplitFrom(Tail(s), separator, Append(piece, Head(s)))

\* String.prototype.split(separator)
split(s, separator) == SplitFrom(s, separator, <<>>)

\* Repository names of stored items: one without and one with an underscore.
RepoNames == {<<"o", "/", "r">>, <<"o", "/", "r", "_", "x">>}

\* A stored change, deployment or incident; only its repo is looked at.
Items == [repo : RepoNames]

ItemLists == UNION {[1..n -> Items] : n \in 0..MaxItems}

\* The collections of testdata/database/LocalTestDatabase, used when the
\* constructor gets no test data.
DefaultCollection == <<[repo |-> <<"o", "/", "r">>]>>

\* The cached metrics of testdata/database/LocalTestDatabase: a non-empty
\* object, here with its own keys only.
testCachedMetrics == [keys |-> {"changes", "deployments", "incidents"}]

\* {} as any
EmptyObject == [keys |-> {}]

\* The value an async function returns to a caller that does not await it: a
\* Promise of the value.
PromiseOf(value) == [promised |-> value]

\* Object.keys(value): a Promise has no own enumerable keys.
ObjectKeys(value) == IF "promised" \in DOMAIN value THEN {} ELSE value.keys

\* The testData argument of the constructor: missing, or an object in which
\* each collection may be missing.
TestDataInputs ==
    {None} \cup
    {Some(t) : t \in [changes : {None} \cup {Some(l) : l \in ItemLists},
                      deployments : {None} \cup {Some(l) : l \in ItemLists},
                      incidents : {None} \cup {Some(l) : l \in ItemLists}]}

\* testData?.changes ? testData.changes : changes (an empty array is truthy)
CollectionOrDefault(testData, name) ==
    IF IsSome(testData) /\ IsSome(Get(testData)[name]) THEN Get(Get(testData)[name])
    ELSE DefaultCollection

NoRepoOut ==
    [op |-> "none", key |-> <<>>, fromDate |-> "", toDate |-> "",
     metrics |-> None, items |-> None]

\* createNewLocalRepository(testData)
NewLocalRepository ==
    /\ repo = None
    /\ \E testData \in TestDataInputs :
          repo' = Some([changes |-> CollectionOrDefault(testData, "changes"),
                        deployments |-> CollectionOrDefault(testData, "deployments"),
                        incidents |-> CollectionOrDefault(testData, "incidents")])
    /\ UNCHANGED <<repoOut, parserVars, timeVars>>

KeyCHANGE == <<"C", "H", "A", "N", "G", "E">>
KeyDEPLOYMENT == <<"D", "E", "P", "L", "O", "Y", "M", "E", "N", "T">>
KeyINCIDENT == <<"I", "N", "C", "I", "D", "E", "N", "T">>
KeySOMEREPO == <<"S", "O", "M", "E", "O", "R", "G", "/", "S", "O", "M", "E", "R", "E", "P", "O">>

\* Prefixes of the keys asked for: the three types in several cases, and
\* another word.
KeyPrefixes ==
    {KeyCHANGE, <<"c", "h", "a", "n", "g", "e">>,
     KeyDEPLOYMENT, <<"D", "e", "p", "l", "o", "y", "m", "e", "n", "t">>,
     KeyINCIDENT, <<"i", "n", "c", "i", "d", "e", "n", "t">>,
     <<"E", "V", "E", "N", "T">>}

\* The keys asked for: the cached repository in two cases, a type without a
\* repository, and every prefix followed by '_' and a repository name.
Keys ==
    {KeySOMEREPO,
     <<"s", "o", "m", "e", "o", "r", "g", "/", "s", "o", "m", "e", "r", "e", "p", "o">>,
     KeyCHANGE}
    \cup {prefix \o <<"_">> \o name : prefix \in KeyPrefixes, name \in RepoNames}

DataRequests ==
    [key : Keys, fromDate : {"20220101", "20220102"}, toDate : {"20220131", "20220201"}]

\* getCachedMetrics(dataRequest): the metrics the returned Promise holds.
getCachedMetrics(dataRequest) ==
    LET repoName == toUpperCase(dataRequest.key)
        range == dataRequest.fromDate \o "_" \o dataRequest.toDate
        cachedData == IF repoName = KeySOMEREPO /\ range = "20220101_20220131"
                      THEN Some(testCachedMetrics) ELSE None
    IN IF IsSome(cachedData) THEN Get(cachedData) ELSE EmptyObject

\* items.filter((item) => item.repo === repoName), repoName maybe undefined
FilterByRepo(items, repoName) ==
    IF repoName = None THEN <<>>
    ELSE SelectSeq(items, LAMBDA item : item.repo = Get(repoName))

\* getItem(dataRequest)
getItem(r, dataRequest) ==
    LET pieces == split(dataRequest.key, "_")
        type == toUpperCase(pieces[1])
        repoName == IF Len(pieces) >= 2 THEN Some(pieces[2]) ELSE None
    IN IF type = KeyCHANGE THEN FilterByRepo(r.changes, repoName)
       ELSE IF type = KeyDEPLOYMENT THEN FilterByRepo(r.deployments, repoName)
       ELSE IF type = KeyINCIDENT THEN FilterByRepo(r.incidents, repoName)
       ELSE <<>>

Called(op, dataRequest) ==
    [NoRepoOut EXCEPT !.op = op, !.key = dataRequest.key,
                      !.fromDate = dataRequest.fromDate, !.toDate = dataRequest.toDate]

\* getMetrics(dataRequest): getCachedMetrics is called without await, so
\* cachedData is the Promise it returns.
getMetricsResult(r, dataRequest) ==
    LET cachedData == PromiseOf(getCachedMetrics(dataRequest))
    IN IF Cardinality(ObjectKeys(cachedData)) # 0
       THEN [Called("getMetrics", dataRequest) EXCEPT !.metrics = Some(cachedData.promised)]
       ELSE [Called("getMetrics", dataRequest) EXCEPT !.items = Some(getItem(r, dataRequest))]

GetMetrics ==
    /\ IsSome(repo) /\ repoOut.op = "none"
    /\ \E dataRequest \in DataRequests :
          repoOut' = getMetricsResult(Get(repo), dataRequest)
    /\ UNCHANGED <<repo, parserVars, timeVars>>

GetCachedMetrics ==
    /\ IsSome(repo) /\ repoOut.op = "none"
    /\ \E dataRequest \in DataRequests :
          repoOut' = [Called("getCachedMetrics", dataRequest) EXCEPT
                         !.metrics = Some(getCachedMetrics(dataRequest))]
    /\ UNCHANGED <<repo, parserVars, timeVars>>

\* cacheMetrics(cacheRequest): logs and returns.
CacheMetrics ==
    /\ IsSome(repo) /\ repoOut.op = "none"
    /\ \E key \in Keys :
          repoOut' = [NoRepoOut EXCEPT !.op = "cacheMetrics", !.key = key]
    /\ UNCHANGED <<repo, parserVars, timeVars>>

\* addEvent, addChange, addDeployment, addIncident: log and return.
AddItem ==
    /\ IsSome(repo) /\ repoOut.op = "none"
    /\ \E op \in {"addEvent", "addChange", "addDeployment", "addIncident"} :
          repoOut' = [NoRepoOut EXCEPT !.op = op]
    /\ UNCHANGED <<repo, parserVars, timeVars>>

----------------------------------------------------------------------------
(* Specifications *)

\* One webhook invocation of the parser, for every environment.
Init ==
    /\ env \in Environments
    /\ parser = None
    /\ pc = "start"
    /\ httpCalls = 0
    /\ result = NoResult
    /\ timeIn = [date |-> None, offsetInHours |-> 0, lastPossibleTime |-> FALSE]
    /\ timeOut = NoTimeOut
    /\ repo = None
    /\ repoOut = NoRepoOut

Next == Construct \/ GetEventType \/ GetPayload

Spec == Init /\ [][Next]_vars

\* One call of getTimestampForInputDate, for every argument.
InitTime ==
    /\ env = [SHORTCUT_TOKEN |-> None, SHORTCUT_INCIDENT_LABEL_ID |-> None]
    /\ parser = None
    /\ pc = "start"
    /\ httpCalls = 0
    /\ result = NoResult
    /\ timeIn \in TimeInputs
    /\ timeOut = NoTimeOut
    /\ repo = None
    /\ repoOut = NoRepoOut

NextTime == GetTimestampForInputDate

SpecTime == InitTime /\ [][NextTime]_vars

\* One call on a local repository, for every test data.
InitRepo ==
    /\ env = [SHORTCUT_TOKEN |-> None, SHORTCUT_INCIDENT_LABEL_ID |-> None]
    /\ parser = None
    /\ pc = "start"
    /\ httpCalls = 0
    /\ result = NoResult
    /\ timeIn = [date |-> None, offsetInHours |-> 0, lastPossibleTime |-> FALSE]
    /\ timeOut = NoTimeOut
    /\ repo = None
    /\ repoOut = NoRepoOut

NextRepo == NewLocalRepository \/ GetMetrics \/ GetCachedMetrics \/ CacheMetrics \/ AddItem

SpecRepo == InitRepo /\ [][NextRepo]_vars

----------------------------------------------------------------------------
(* Vocabulary of the properties *)

\* The last call was getPayload and the provider answered with a story.
PayloadAnswered == result.op = "getPayload" /\ IsSome(result.story)

Story == Get(result.story)

WebhookBody == BodyOrEmpty(result.input)

IncidentLabelId == Get(parser).shortcutIncidentLabelId

StoryClosed == Story.completed \/ Story.archived

\* The actions list of the webhook, empty when the key is missing.
WebhookActions == IF IsSome(WebhookBody.actions) THEN Get(WebhookBody.actions) ELSE <<>>

SomeActionIs(kind) == \E i \in DOMAIN WebhookActions : WebhookActions[i].action = kind

Contains(list, id) == IsSome(list) /\ \E i \in DOMAIN Get(list) : Get(list)[i] = id

\* The incident label is in the label_ids of some action.
LabelInDirect == \E i \in DOMAIN WebhookActions :
                    Contains(WebhookActions[i].label_ids, IncidentLabelId)

\* The incident label is in the changes.label_ids.adds of some action.
LabelInAdds == \E i \in DOMAIN WebhookActions :
                  Contains(WebhookActions[i].adds, IncidentLabelId)

\* The incident label is in the changes.label_ids.removes of some action.
LabelInRemoves == \E i \in DOMAIN WebhookActions :
                     Contains(WebhookActions[i].removes, IncidentLabelId)

Dto == Get(result.dto)

----------------------------------------------------------------------------
(* Properties of getPayload's classification *)

\* C1: whenever the fetched story is completed or archived, getPayload
\* classifies the event as closed and returns a DTO that carries
\* timeResolved, whatever the webhook's actions are (missing, empty, or
\* creates and updates that add or remove the incident label).
C1_ClosedWhenCompletedOrArchived ==
    (PayloadAnswered /\ StoryClosed)
        => /\ result.threw = ""
           /\ result.event = "closed"
           /\ IsSome(result.dto)
           /\ IsSome(Dto.timeResolved)

\* C1 witness: an archived story whose webhook has no actions key is closed.
C1_Witness ==
    /\ PayloadAnswered
    /\ Story.archived /\ ~Story.completed
    /\ WebhookBody.actions = None
    /\ result.event = "closed"
    /\ IsSome(result.dto) /\ IsSome(Dto.timeResolved)

\* C2 as stated: with a story that is neither completed nor archived and a
\* create action in the webhook, the event is labeled if the incident label
\* is among the label adds and opened otherwise.
C2_Original ==
    (PayloadAnswered /\ ~StoryClosed /\ SomeActionIs("create"))
        => /\ result.threw = ""
           /\ result.event = (IF LabelInAdds THEN "labeled" ELSE "opened")

\* C2 amended: with a story that is neither completed nor archived and a
\* create action in the webhook, the event is labeled if the incident label
\* is in some action's label_ids or adds delta and opened otherwise; it is
\* never unlabeled or unknown, even when an update removes the label.
C2_LabeledOrOpenedOnCreate ==
    (PayloadAnswered /\ ~StoryClosed /\ SomeActionIs("create"))
        => /\ result.threw = ""
           /\ result.event = (IF LabelInAdds \/ LabelInDirect THEN "labeled" ELSE "opened")

\* C2 witness: a create together with an update that removes the incident
\* label is opened.
C2_Witness ==
    /\ PayloadAnswered /\ ~StoryClosed
    /\ SomeActionIs("create") /\ SomeActionIs("update")
    /\ LabelInRemoves
    /\ result.event = "opened"

\* C3 as stated: with a story that is neither completed nor archived, no
\* create and some update, the event is labeled if the label was added,
\* unlabeled if it was removed, opened otherwise; every such webhook whose
\* removes delta holds the incident label is unlabeled.
C3_Original ==
    (PayloadAnswered /\ ~StoryClosed /\ ~SomeActionIs("create") /\ SomeActionIs("update"))
        => /\ result.threw = ""
           /\ (LabelInRemoves => result.event = "unlabeled")
           /\ (~LabelInRemoves =>
                 result.event = (IF LabelInAdds \/ LabelInDirect THEN "labeled" ELSE "opened"))

\* C3 amended: with a story that is neither completed nor archived, no
\* create and some update, the event is labeled if the incident label is in
\* some action's label_ids or adds delta; otherwise unlabeled if it is in
\* some action's removes delta; otherwise opened.  A webhook whose removes
\* delta holds the label is unlabeled only when no action adds or carries it.
C3_UpdateClassification ==
    (PayloadAnswered /\ ~StoryClosed /\ ~SomeActionIs("create") /\ SomeActionIs("update"))
        => /\ result.threw = ""
           /\ result.event = (IF LabelInAdds \/ LabelInDirect THEN "labeled"
                              ELSE IF LabelInRemoves THEN "unlabeled"
                              ELSE "opened")

\* C3 witness: an update that removes the incident label is unlabeled.
C3_Witness ==
    /\ PayloadAnswered /\ ~StoryClosed
    /\ ~SomeActionIs("create") /\ SomeActionIs("update")
    /\ LabelInRemoves
    /\ result.event = "unlabeled"

\* C4 as stated: a DTO returned by getPayload has timeResolved only when the
\* event is closed or unlabeled; the DTOs of opened, labeled and unknown
\* events have none.
C4_Original ==
    (result.op = "getPayload" /\ IsSome(result.dto))
        => (IsSome(Dto.timeResolved) <=> result.event \in {"closed", "unlabeled"})

\* C4 amended: a DTO returned by getPayload for an opened or labeled event
\* has no timeResolved, one for a closed or unlabeled event has it, and the
\* DTO of an unknown event has the placeholder "UNKNOWN" as timeResolved.
C4_TimeResolvedPresence ==
    (result.op = "getPayload" /\ IsSome(result.dto))
        => /\ result.event \in {"opened", "labeled", "closed", "unlabeled", "unknown"}
           /\ (result.event \in {"opened", "labeled"} => Dto.timeResolved = None)
           /\ (result.event \in {"closed", "unlabeled"} => IsSome(Dto.timeResolved))
           /\ (result.event = "unknown" => Dto.timeResolved = Some("UNKNOWN"))

\* C4 witness: the DTO of a labeled event, without timeResolved.
C4_Witness ==
    /\ result.op = "getPayload" /\ IsSome(result.dto)
    /\ result.event = "labeled"
    /\ Dto.timeResolved = None

----------------------------------------------------------------------------
(* Input validation *)

\* C5: getPayload and getEventType throw MissingShortcutFieldsError on a
\* missing or empty body; getPayload throws MissingIdError, another kind of
\* error, on a non-empty body without primary_id; in both cases no request
\* to the provider API has been issued.
C5_ValidationBeforeRequest ==
    /\ (result.op \in {"getPayload", "getEventType"}
          /\ (result.input = None \/ result.input = Some(EmptyBody)))
        => (result.threw = "MissingShortcutFieldsError" /\ httpCalls = 0)
    /\ (result.op = "getPayload" /\ IsSome(result.input)
          /\ result.input # Some(EmptyBody) /\ WebhookBody.primary_id = None)
        => (result.threw = "MissingIdError"
            /\ result.threw # "MissingShortcutFieldsError"
            /\ httpCalls = 0)

\* C5 witness: getPayload on a body with actions but no primary_id.
C5_Witness ==
    /\ result.op = "getPayload"
    /\ IsSome(result.input) /\ WebhookBody.primary_id = None
    /\ IsSome(WebhookBody.actions)
    /\ result.threw = "MissingIdError"
    /\ httpCalls = 0

----------------------------------------------------------------------------
(* Configuration *)

TokenAbsent == env.SHORTCUT_TOKEN \in {None, Some(""), Some("undefined")}

LabelText == Get(env.SHORTCUT_INCIDENT_LABEL_ID)

\* The text is a decimal numeral: digits only, at least one.
IsNumeral(text) == text # <<>> /\ \A i \in DOMAIN text : IsDigit(text[i])

AllZeros(text) == \A i \in DOMAIN text : text[i] = "0"

WithoutSign(text) == IF text # <<>> /\ text[1] \in {"-", "+"} THEN Tail(text) ELSE text

\* The text begins, after an optional sign, with digits that are not all 0.
BeginsWithNonZeroInteger(text) ==
    LET u == WithoutSign(text)
    IN \E k \in 1..Len(u) : /\ \A j \in 1..k : IsDigit(u[j])
                            /\ \E j \in 1..k : u[j] # "0"

ThrewConfiguration(name) ==
    /\ result.threw = "ShortcutConfigurationError"
    /\ result.detail = name
    /\ parser = None

----------------------------------------------------------------------------
(* Timestamps *)

RECURSIVE DaysBeforeYear(_)
\* Days from 1970-01-01 to the first day of year y, counted year by year.
DaysBeforeYear(y) ==
    IF y <= 1970 THEN 0
    ELSE DaysBeforeYear(y - 1) + (IF IsLeapYear(y - 1) THEN 366 ELSE 365)

RECURSIVE DaysBeforeMonth(_, _)
\* Days from the first day of year y to the first day of its month m.
DaysBeforeMonth(y, m) ==
    IF m <= 1 THEN 0 ELSE DaysBeforeMonth(y, m - 1) + DaysInMonth(y, m - 1)

\* Unix seconds of 00:00:00 UTC on y-m-d.
MidnightUtc(y, m, d) == (DaysBeforeYear(y) + DaysBeforeMonth(y, m) + d - 1) * 86400

DateTooShortOrLong ==
    \/ timeIn.date = None
    \/ Get(timeIn.date) = <<>>
    \/ Len(Get(timeIn.date)) # 8

\* C7: for a calendar date YYYYMMDD, getTimestampForInputDate returns as a
\* string the Unix seconds of 00:00:00 UTC on that date plus 3600 * h for a
\* whole-hour offset h: the zone marker written is "+" for a negative h and
\* "-" otherwise; "20230101" with offset 0 gives "1672531200"; an input that
\* is missing, empty or not 8 characters long raises
\* InvalidIsoDateConversionError.
C7_TimestampForInputDate ==
    timeOut.called
        => /\ DateTooShortOrLong => timeOut.threw = "InvalidIsoDateConversionError"
           /\ \A ymd \in CalendarDates :
                 (timeIn.date = Some(DateChars(ymd[1], ymd[2], ymd[3]))
                    /\ ~timeIn.lastPossibleTime)
                 => /\ timeOut.threw = ""
                    /\ timeOut.value =
                          NumberToString(MidnightUtc(ymd[1], ymd[2], ymd[3])
                                         + 3600 * timeIn.offsetInHours)
                    /\ timeOut.dateString[24] =
                          (IF timeIn.offsetInHours < 0 THEN "+" ELSE "-")
           /\ (timeIn.date = Some(<<"2", "0", "2", "3", "0", "1", "0", "1">>)
                 /\ timeIn.offsetInHours = 0 /\ ~timeIn.lastPossibleTime)
                 => timeOut.value = "1672531200"

\* C7 witness: "20230101" with offset -4 gives 1672531200 - 4 * 3600.
C7_Witness ==
    /\ timeOut.called
    /\ timeIn.date = Some(<<"2", "0", "2", "3", "0", "1", "0", "1">>)
    /\ timeIn.offsetInHours = -4
    /\ ~timeIn.lastPossibleTime
    /\ timeOut.value = "1672516800"

----------------------------------------------------------------------------
(* timeResolved, unknown events, getEventType *)

\* completed_at_override if set, else completed_at.
CompletionTimestamp ==
    IF IsSome(Story.completed_at_override) THEN Story.completed_at_override
    ELSE Story.completed_at

\* C8 as stated: for an event handled by the closed/unlabeled path,
\* timeResolved is the epoch seconds of the story's completion timestamp
\* when there is one and of the current time when there is none, also for
\* a completed or archived story without completion timestamps.
C8_Original ==
    (PayloadAnswered /\ IsSome(result.dto) /\ result.event \in {"closed", "unlabeled"})
        => Dto.timeResolved =
              Some(IF IsSome(CompletionTimestamp)
                   THEN NumberToString(Get(CompletionTimestamp))
                   ELSE NumberToString(result.now \div 1000))

\* C9 as stated: with a story that is neither completed nor archived and no
\* create or update among the actions (the list may be empty or missing),
\* getPayload raises no error, the event is unknown and the DTO returned has
\* "UNKNOWN" in every field.
C9_Original ==
    (PayloadAnswered /\ ~StoryClosed /\ ~SomeActionIs("create") /\ ~SomeActionIs("update"))
        => /\ result.threw = ""
           /\ result.event = "unknown"
           /\ result.dto = Some(UnknownDto)

Reverse(s) == [i \in DOMAIN s |-> s[Len(s) + 1 - i]]

\* C10 as stated: on a non-empty body getEventType returns "incident"
\* exactly when some action has the incident label in its label_ids or its
\* adds delta and "change" in every other case, without any request to the
\* provider; hasLabelId(check, id, actions) holds iff some action has id in
\* its label_ids or in its changes.label_ids[check], in any order of actions.
C10_Original ==
    (result.op = "getEventType" /\ IsSome(result.input) /\ result.input # Some(EmptyBody))
        => /\ result.threw = ""
           /\ result.eventType = (IF LabelInDirect \/ LabelInAdds THEN "incident" ELSE "change")
           /\ httpCalls = 0
           /\ \A check \in {"adds", "removes"}, id \in {1, 2} :
                 /\ hasLabelId(check, id, WebhookActions)
                      <=> \E i \in DOMAIN WebhookActions :
                             \/ Contains(WebhookActions[i].label_ids, id)
                             \/ Contains(ChangesLabelIds(WebhookActions[i], check), id)
                 /\ hasLabelId(check, id, Reverse(WebhookActions))
                      <=> hasLabelId(check, id, WebhookActions)

----------------------------------------------------------------------------
(* Local repository *)

\* The local cache holds an entry for the request.
CacheHolds ==
    /\ toUpperCase(repoOut.key) = KeySOMEREPO
    /\ repoOut.fromDate = "20220101"
    /\ repoOut.toDate = "20220131"

\* Position of the first '_' of the key, 0 when it has none.
FirstUnderscore ==
    IF \E i \in DOMAIN repoOut.key : repoOut.key[i] = "_"
    THEN CHOOSE i \in DOMAIN repoOut.key :
            repoOut.key[i] = "_" /\ \A j \in 1..(i - 1) : repoOut.key[j] # "_"
    ELSE 0

KeyType == toUpperCase(SubSeq(repoOut.key, 1, FirstUnderscore - 1))

\* The part of the key after its first '_'.
KeyRepo == SubSeq(repoOut.key, FirstUnderscore + 1, Len(repoOut.key))

StoredWithRepo(items) == SelectSeq(items, LAMBDA item : item.repo = KeyRepo)

\* The lookup result the claim describes.
LookupResult ==
    IF FirstUnderscore = 0 THEN <<>>
    ELSE IF KeyType = KeyCHANGE THEN StoredWithRepo(Get(repo).changes)
    ELSE IF KeyType = KeyDEPLOYMENT THEN StoredWithRepo(Get(repo).deployments)
    ELSE IF KeyType = KeyINCIDENT THEN StoredWithRepo(Get(repo).incidents)
    ELSE <<>>

\* C11 as stated: getCachedMetrics yields the test metrics for the key
\* 'SOMEORG/SOMEREPO' (in any case) with the range 20220101_20220131;
\* getMetrics returns the cached metrics whenever the cache holds an entry
\* for the request, and otherwise the stored changes, deployments or
\* incidents whose repo is the part of the key after the first '_' for a key
\* prefixed CHANGE_, DEPLOYMENT_ or INCIDENT_ (in any case), and an empty
\* list for any other key.
C11_Original ==
    /\ (repoOut.op = "getCachedMetrics" /\ CacheHolds)
          => repoOut.metrics = Some(testCachedMetrics)
    /\ (repoOut.op = "getMetrics" /\ CacheHolds)
          => repoOut.metrics = Some(testCachedMetrics)
    /\ (repoOut.op = "getMetrics" /\ ~CacheHolds)
          => repoOut.items = Some(LookupResult)

====
